---- MODULE Spec2Model ----
(***************************************************************************)
(* A model of the GraphQL client plugin (src/index.js): the query-text     *)
(* builders (_makeFieldTypeExpr, _makeReturnExpr, _makeDefaultProjection), *)
(* the operation synthesis of _connect, the session recycling of           *)
(* _ensureClient, and the per-call control flow of a synthesized operation *)
(* with its suspension points.                                             *)
(***************************************************************************)
EXTENDS Integers, Sequences, FiniteSets, TLC

(***************************************************************************)
(* Bounds of the model.                                                    *)
(***************************************************************************)
\* nesting depth of the wrappers (NonNull, List) around a named type
MaxTypeDepth == 3
\* number of arguments a field declares in the renderer harness
MaxArgs == 2
\* number of entries of one projection object in the renderer harness
MaxEntries == 2
\* frames the engine's call stack holds before it raises RangeError
MaxStack == 6
\* largest recycle threshold (otherOptions.resetStoreEvery) that is drawn
MaxThreshold == 2
\* number of tasks that issue operation calls concurrently
MaxTasks == 3
\* number of operation calls issued in one behaviour
MaxInvocations == 4

(***************************************************************************)
(* Sequence helpers that stand for Array.prototype.map/filter/join.        *)
(***************************************************************************)
RECURSIVE join(_, _)
join(strs, sep) ==
    IF Len(strs) = 0 THEN ""
    ELSE IF Len(strs) = 1 THEN strs[1]
    ELSE strs[1] \o sep \o join(Tail(strs), sep)

\* the sequences of length <= n over S whose first components are distinct
KeyedSeqs(Keys, Vals, n) ==
    UNION { { s \in [1..k -> Keys \X Vals] :
                \A i, j \in 1..k : i # j => s[i][1] # s[j][1] } : k \in 0..n }

(***************************************************************************)
(* GraphQL type references: a named type, or a NonNull / List wrapper      *)
(* around another reference (GraphQLNonNull, GraphQLList, .ofType).        *)
(***************************************************************************)
Named(n) == [kind |-> "Named", name |-> n]
NonNull(t) == [kind |-> "NonNull", ofType |-> t]
List(t) == [kind |-> "List", ofType |-> t]

RECURSIVE TypeRefs(_, _)
TypeRefs(names, d) ==
    IF d = 0 THEN { Named(n) : n \in names }
    ELSE LET inner == TypeRefs(names, d - 1)
         IN  inner \cup { NonNull(t) : t \in inner } \cup { List(t) : t \in inner }

\* _makeFieldTypeExpr(type)
RECURSIVE makeFieldTypeExpr(_)
makeFieldTypeExprBangFirst(type) ==
    IF type.kind = "NonNull" THEN "!" \o makeFieldTypeExpr(type.ofType)
    ELSE IF type.kind = "List" THEN "[" \o makeFieldTypeExpr(type.ofType) \o "]"
    ELSE type.name

makeFieldTypeExpr(type) ==
    IF type.kind = "NonNull" THEN makeFieldTypeExpr(type.ofType) \o "!"
    ELSE IF type.kind = "List" THEN "[" \o makeFieldTypeExpr(type.ofType) \o "]"
    ELSE type.name

\* field.args.map(a => `$${a.name}: ${this._makeFieldTypeExpr(a.type)}`).join(', ')
queryArgDeclare(args) ==
    join([i \in 1..Len(args) |->
            "$" \o args[i].name \o ": " \o makeFieldTypeExpr(args[i].type)], ", ")

\* field.args.map(a => `${a.name}: $${a.name}`).join(', ')
queryArgs(args) ==
    join([i \in 1..Len(args) |-> args[i].name \o ": $" \o args[i].name], ", ")

(***************************************************************************)
(* JavaScript values a projection entry can hold.  A projection object is  *)
(* the sequence of its [field, show] entries in insertion order.           *)
(***************************************************************************)
JTrue == [t |-> "true"]
JFalse == [t |-> "false"]
JNull == [t |-> "null"]
JUndefined == [t |-> "undefined"]
JZero == [t |-> "zero"]
JEmptyStr == [t |-> "emptystr"]
Num(n) == [t |-> "number", n |-> n]
Obj(entries) == [t |-> "object", entries |-> entries]

\* ToBoolean of a value
Truthy(v) == v.t \in {"true", "object"} \/ (v.t = "number" /\ v.n # 0)
\* typeof v === 'object'
TypeofObject(v) == v.t \in {"object", "null"}
\* Object.entries(v)
ObjectEntries(v) == IF v.t = "object" THEN v.entries ELSE <<>>
\* lodash isEmpty(v)
isEmpty(v) == ObjectEntries(v) = <<>>

\* .filter(v => v) on an array of strings and undefined; undefined is ""
RECURSIVE filterTruthy(_)
filterTruthy(strs) ==
    IF Len(strs) = 0 THEN <<>>
    ELSE IF Head(strs) = "" THEN filterTruthy(Tail(strs))
    ELSE <<Head(strs)>> \o filterTruthy(Tail(strs))

\* _makeReturnExpr(projections)
RECURSIVE makeReturnExpr(_)
makeReturnExpr(projections) ==
    IF ~Truthy(projections) THEN ""
    ELSE LET entries == ObjectEntries(projections)
             mapped == [i \in 1..Len(entries) |->
                          LET field == entries[i][1]
                              show == entries[i][2]
                          IN  IF TypeofObject(show)
                              THEN field \o " " \o makeReturnExpr(show)
                              ELSE IF Truthy(show) THEN field
                              ELSE ""]
             expr == join(filterTruthy(mapped), ", ")
         IN  IF expr # "" THEN "{" \o expr \o "}" ELSE ""

(***************************************************************************)
(* The inputs of the renderer harness.                                     *)
(***************************************************************************)
TypeNames == {"Int", "ID"}
ArgNames == {"id", "xs"}
OuterFields == {"a", "b"}
InnerFields == {"c", "d"}
Primitives == {JTrue, JFalse, JNull, JUndefined, JZero, JEmptyStr}

HarnessTypes == TypeRefs(TypeNames, MaxTypeDepth)
HarnessArgs ==
    { [i \in 1..Len(s) |-> [name |-> s[i][1], type |-> s[i][2]]] :
        s \in KeyedSeqs(ArgNames, HarnessTypes, MaxArgs) }
InnerProjections ==
    { Obj(s) : s \in KeyedSeqs(InnerFields, {JTrue, JFalse}, MaxEntries) }
HarnessProjections ==
    { Obj(s) : s \in KeyedSeqs(OuterFields, Primitives \cup InnerProjections, MaxEntries) }

(***************************************************************************)
(* The schema the remote reports.  types maps a type name to its kind and, *)
(* for an object type, its fields in declaration order.  A schema without  *)
(* a mutation type has hasMutation = FALSE (getMutationType() is falsy).   *)
(***************************************************************************)
Arg(n, t) == [name |-> n, type |-> t]
Field(n, as, t) == [name |-> n, args |-> as, type |-> t]
Scalar == [kind |-> "SCALAR", fields |-> <<>>]
Interface == [kind |-> "INTERFACE", fields |-> <<>>]
ObjectType(fs) == [kind |-> "OBJECT", fields |-> fs]
Scalars == [n \in {"ID", "String", "Int"} |-> Scalar]

IdArg == <<Arg("id", NonNull(Named("ID")))>>

\* query { user(id: ID!): User }   type User { id: ID!, name: String }
UserSchema ==
    [queryFields |-> <<Field("user", IdArg, Named("User"))>>,
     hasMutation |-> FALSE, mutationFields |-> <<>>,
     types |-> ("User" :> ObjectType(<<Field("id", <<>>, NonNull(Named("ID"))),
                                       Field("name", <<>>, Named("String"))>>))
               @@ Scalars]

\* the query type and the mutation type both define user
CollisionSchema ==
    [queryFields |-> <<Field("user", IdArg, Named("User")),
                       Field("sum", <<Arg("xs", NonNull(List(NonNull(Named("Int")))))>>,
                             Named("Int"))>>,
     hasMutation |-> TRUE,
     mutationFields |-> <<Field("user", <<Arg("id", NonNull(Named("ID"))),
                                          Arg("name", Named("String"))>>,
                                NonNull(Named("User"))),
                          Field("drop", IdArg, Named("Int"))>>,
     types |-> ("User" :> ObjectType(<<Field("name", <<>>, Named("String")),
                                       Field("id", <<>>, NonNull(Named("ID")))>>))
               @@ Scalars]

\* type Node { edge: Edge, next: Node }   type Edge { node: Node }
CyclicSchema ==
    [queryFields |-> <<Field("node", IdArg, Named("Node"))>>,
     hasMutation |-> FALSE, mutationFields |-> <<>>,
     types |-> ("Node" :> ObjectType(<<Field("edge", <<>>, Named("Edge")),
                                       Field("next", <<>>, Named("Node"))>>))
               @@ ("Edge" :> ObjectType(<<Field("node", <<>>, Named("Node"))>>))
               @@ Scalars]

\* type Post { author: User!, id: ID! }   type User { id: ID! }
NestedSchema ==
    [queryFields |-> <<Field("post", IdArg, List(Named("Post")))>>,
     hasMutation |-> TRUE,
     mutationFields |-> <<Field("publish", IdArg, Named("Post"))>>,
     types |-> ("Post" :> ObjectType(<<Field("author", <<>>, NonNull(Named("User"))),
                                       Field("id", <<>>, NonNull(Named("ID")))>>))
               @@ ("User" :> ObjectType(<<Field("id", <<>>, NonNull(Named("ID")))>>))
               @@ Scalars]

\* a field without arguments that returns a scalar, and one returning an interface
PingSchema ==
    [queryFields |-> <<Field("ping", <<>>, Named("String")),
                       Field("any", IdArg, Named("Entity"))>>,
     hasMutation |-> FALSE, mutationFields |-> <<>>,
     types |-> ("Entity" :> Interface) @@ Scalars]

Schemas == {UserSchema, CollisionSchema, CyclicSchema, NestedSchema, PingSchema}

\* getNamedType(type): the name of the type under the wrappers
RECURSIVE getNamedType(_)
getNamedType(type) ==
    IF type.kind = "Named" THEN type.name ELSE getNamedType(type.ofType)

\* isLeafType(type): the type itself is a scalar or an enum (a wrapper is neither)
isLeafType(types, type) ==
    type.kind = "Named" /\ types[type.name].kind \in {"SCALAR", "ENUM"}

(***************************************************************************)
(* Errors: what a throw carries, as far as the catch clause reads it.      *)
(***************************************************************************)
Error(type, networkError) == [type |-> type, networkError |-> networkError]
RangeError == Error("RangeError", JUndefined)
TypeError == Error("TypeError", JUndefined)
NetworkError(statusCode) ==
    Error("ApolloError", [t |-> "object", statusCode |-> statusCode])
GraphQLError == Error("ApolloError", JUndefined)
NoError == Error("", JUndefined)

Ok(v) == [ok |-> TRUE, value |-> v, error |-> NoError]
Throw(e) == [ok |-> FALSE, value |-> JUndefined, error |-> e]

\* the index of the first field whose type isLeafType accepts, 0 if none
FirstLeaf(types, fields) ==
    IF \E i \in 1..Len(fields) : isLeafType(types, fields[i].type)
    THEN CHOOSE i \in 1..Len(fields) :
            /\ isLeafType(types, fields[i].type)
            /\ \A j \in 1..(i - 1) : ~isLeafType(types, fields[j].type)
    ELSE 0

\* _makeDefaultProjection(returnType); depth counts the frames of the recursion,
\* and the engine raises RangeError when its call stack is exhausted
RECURSIVE makeDefaultProjection(_, _, _)
makeDefaultProjection(types, returnType, depth) ==
    IF depth > MaxStack THEN Throw(RangeError)
    ELSE IF types[returnType].kind = "OBJECT"
    THEN LET fields == types[returnType].fields
             leaf == FirstLeaf(types, fields)
         IN  IF leaf # 0 THEN Ok(Obj(<< <<fields[leaf].name, JTrue>> >>))
             ELSE IF Len(fields) = 0 THEN Throw(TypeError)
             ELSE LET sub == makeDefaultProjection(types, getNamedType(fields[1].type),
                                                   depth + 1)
                  IN  IF sub.ok THEN Ok(Obj(<< <<fields[1].name, sub.value>> >>))
                      ELSE sub
    ELSE Ok(Obj(<<>>))

(***************************************************************************)
(* _connect: one operation per field of the query type, then one per field *)
(* of the mutation type when the schema has one; a later assignment to the *)
(* same member name replaces the earlier one.                              *)
(***************************************************************************)
Operation(kind, field, projection) ==
    [kind |-> kind, field |-> field,
     queryArgDeclare |-> queryArgDeclare(field.args),
     queryArgs |-> queryArgs(field.args),
     defaultProjections |-> projection]

\* the body of one for-of loop of _connect, from the members installed so far
RECURSIVE installFields(_, _, _, _)
installFields(members, kind, fields, types) ==
    IF Len(fields) = 0 THEN Ok(members)
    ELSE LET field == Head(fields)
             projection == makeDefaultProjection(types, getNamedType(field.type), 1)
         IN  IF ~projection.ok THEN [ok |-> FALSE, value |-> members,
                                     error |-> projection.error]
             ELSE installFields((field.name :> Operation(kind, field, projection.value))
                                    @@ members,
                                kind, Tail(fields), types)

connectUnguarded(s) ==
    LET queries == installFields(<<>>, "query", s.queryFields, s.types)
    IN  IF ~queries.ok THEN queries
        ELSE IF ~s.hasMutation
        THEN [ok |-> FALSE, value |-> queries.value, error |-> TypeError]
        ELSE installFields(queries.value, "mutation", s.mutationFields, s.types)

connect(s) ==
    LET queries == installFields(<<>>, "query", s.queryFields, s.types)
    IN  IF ~queries.ok THEN queries
        ELSE IF s.hasMutation
        THEN installFields(queries.value, "mutation", s.mutationFields, s.types)
        ELSE queries

(***************************************************************************)
(* The client.                                                             *)
(***************************************************************************)
VARIABLES
    options,        \* otherOptions as passed to create (undefined when omitted)
    otherOptions,   \* this.otherOptions
    schema,         \* the schema introspectSchema resolves to
    phase,          \* "constructed", then "connected" or "failed" (_connect rejected)
    connectError,   \* what _connect rejected with
    members,        \* the operations _connect installed, by member name
    apollo,         \* this.apollo: 0 is undefined, i is the i-th instance constructed
    counter,        \* this.counter
    uses,           \* uses[i]: documents handed to the i-th instance
    invocations,    \* calls of _ensureClient so far
    tasks,          \* the operation call each task has in flight or settled last
    input, output   \* the renderer harness: a builder's argument and its result

clientVars == <<options, otherOptions, schema, phase, connectError, members, apollo,
                counter, uses, invocations, tasks>>
pureVars == <<input, output>>
vars == <<options, otherOptions, schema, phase, connectError, members, apollo,
          counter, uses, invocations, tasks, input, output>>

\* Number.MAX_SAFE_INTEGER (2^53 - 1), the sentinel this.counter starts from; it is
\* held here as the largest value whose successor a 32-bit integer still represents
MAX_SAFE_INTEGER == 2147483646
\* otherOptions = {resetStoreEvery: 100}
DefaultResetStoreEvery == 100

OtherOptions(resetStoreEvery) == [t |-> "object", resetStoreEvery |-> resetStoreEvery]

\* the default of the destructured parameter applies to undefined alone
createOtherOptions(given) ==
    IF given = JUndefined THEN OtherOptions(Num(DefaultResetStoreEvery)) ELSE given

\* a >= b for a number a: false when b is undefined (ToNumber gives NaN)
GE(a, b) == b.t = "number" /\ a >= b.n

\* n + 1 in double arithmetic: above 2^53 - 1 the successor rounds back
Incr(n) == IF n > MAX_SAFE_INTEGER THEN n ELSE n + 1

DefaultLogger == "defaultLogger"
CallerLogger == "callerLogger"
NoLogger == ""
\* defaultLogger.fail throws its cause; the caller's logger records and returns
failThrows(logger) == logger = DefaultLogger

IdleTask ==
    [pc |-> "idle", name |-> "", loggerArg |-> NoLogger, logger |-> NoLogger,
     projections |-> JUndefined, ensuredOn |-> 0, sentOn |-> 0, method |-> "",
     document |-> "",
     raised |-> NoError, fails |-> <<>>, value |-> "", error |-> NoError]

Constructed(o, s) ==
    /\ options = o
    /\ otherOptions = createOtherOptions(o)
    /\ schema = s
    /\ phase = "constructed"
    /\ connectError = NoError
    /\ members = <<>>
    /\ apollo = 0
    /\ counter = MAX_SAFE_INTEGER
    /\ uses = <<>>
    /\ invocations = 0
    /\ tasks = [c \in 1..MaxTasks |-> IdleTask]

OptionValues ==
    {JUndefined, OtherOptions(JUndefined)}
        \cup { OtherOptions(Num(k)) : k \in 1..MaxThreshold }

NoInput == [fn |-> "", arg |-> JUndefined]
NoOutput == "(pending)"

Init ==
    /\ \E o \in OptionValues, s \in Schemas : Constructed(o, s)
    /\ input = NoInput
    /\ output = NoOutput

\* await client._connect() in create
Connect ==
    /\ phase = "constructed"
    /\ LET r == connect(schema)
       IN  /\ members' = r.value
           /\ phase' = IF r.ok THEN "connected" ELSE "failed"
           /\ connectError' = r.error
    /\ UNCHANGED <<options, otherOptions, schema, apollo, counter, uses, invocations,
                   tasks, input, output>>

\* _ensureClient(); it has no await, so it runs to its end in one step
ensureClientStrictlyGreater ==
    /\ IF GE(counter, otherOptions.resetStoreEvery)
          /\ counter # otherOptions.resetStoreEvery.n
       THEN /\ apollo' = Len(uses) + 1
            /\ uses' = Append(uses, 0)
            /\ counter' = Incr(0)
       ELSE /\ counter' = Incr(counter)
            /\ UNCHANGED <<apollo, uses>>
    /\ invocations' = invocations + 1

ensureClient ==
    /\ IF GE(counter, otherOptions.resetStoreEvery)
       THEN /\ apollo' = Len(uses) + 1
            /\ uses' = Append(uses, 0)
            /\ counter' = Incr(0)
       ELSE /\ counter' = Incr(counter)
            /\ UNCHANGED <<apollo, uses>>
    /\ invocations' = invocations + 1

\* the catch clause of an operation: the task as it settles on failure e
catchClauseAbove500(task, e) ==
    IF Truthy(e.networkError) /\ (~Truthy(e.networkError.statusCode)
                                     \/ e.networkError.statusCode.n > 500)
    THEN LET called == [task EXCEPT !.raised = e, !.fails = Append(@,
                            [logger |-> task.logger, code |-> "_failed_api_server_error",
                             cause |-> e])]
         IN  IF failThrows(task.logger)
             THEN [called EXCEPT !.pc = "rejected", !.error = e]
             ELSE [called EXCEPT !.pc = "fulfilled", !.value = "undefined"]
    ELSE [task EXCEPT !.raised = e, !.pc = "rejected", !.error = e]

catchClause(task, e) ==
    IF Truthy(e.networkError) /\ (~Truthy(e.networkError.statusCode)
                                     \/ GE(e.networkError.statusCode.n, Num(500)))
    THEN LET called == [task EXCEPT !.raised = e, !.fails = Append(@,
                            [logger |-> task.logger, code |-> "_failed_api_server_error",
                             cause |-> e])]
         IN  IF failThrows(task.logger)
             THEN [called EXCEPT !.pc = "rejected", !.error = e]
             ELSE [called EXCEPT !.pc = "fulfilled", !.value = "undefined"]
    ELSE [task EXCEPT !.raised = e, !.pc = "rejected", !.error = e]

\* this.apollo.query for a field of the query type, this.apollo.mutate otherwise
method(op) == IF op.kind = "query" THEN "query" ELSE "mutate"

\* the document text handed to gql
document(op, projections) ==
    op.kind \o " (" \o op.queryArgDeclare \o ") { " \o op.field.name \o " ("
        \o op.queryArgs \o ") " \o makeReturnExpr(projections) \o " }"

\* an operation is called: it runs up to its first await, _ensureClient included
OperationCall(c, name, logger, projections) ==
    /\ phase = "connected"
    /\ name \in DOMAIN members
    /\ tasks[c].pc \in {"idle", "fulfilled", "rejected"}
    /\ invocations < MaxInvocations
    /\ ensureClient
    /\ tasks' = [tasks EXCEPT ![c] =
            [IdleTask EXCEPT
                !.pc = "ensured",
                !.name = name,
                !.loggerArg = logger,
                !.logger = IF logger = NoLogger THEN DefaultLogger ELSE logger,
                !.projections = IF ~Truthy(projections) \/ isEmpty(projections)
                                THEN members[name].defaultProjections
                                ELSE projections,
                !.ensuredOn = apollo']]
    /\ UNCHANGED <<options, otherOptions, schema, phase, connectError, members,
                   input, output>>

\* the call resumes after await this._ensureClient(): this.apollo.query / mutate
OperationSend(c) ==
    /\ tasks[c].pc = "ensured"
    /\ IF apollo = 0
       THEN /\ tasks' = [tasks EXCEPT ![c] = catchClause(@, TypeError)]
            /\ UNCHANGED uses
       ELSE /\ tasks' = [tasks EXCEPT ![c] =
                    [@ EXCEPT !.pc = "sent", !.sentOn = apollo,
                              !.method = method(members[tasks[c].name]),
                              !.document = document(members[tasks[c].name],
                                                    tasks[c].projections)]]
            /\ uses' = [uses EXCEPT ![apollo] = @ + 1]
    /\ UNCHANGED <<options, otherOptions, schema, phase, connectError, members, apollo,
                   counter, invocations, input, output>>

\* the transport answers: resp.data[field.name] is returned
OperationReturn(c) ==
    /\ tasks[c].pc = "sent"
    /\ tasks' = [tasks EXCEPT ![c] =
            [@ EXCEPT !.pc = "fulfilled", !.value = "data." \o tasks[c].name]]
    /\ UNCHANGED <<options, otherOptions, schema, phase, connectError, members, apollo,
                   counter, uses, invocations, input, output>>

\* the transport raises e
OperationCatch(c, e) ==
    /\ tasks[c].pc = "sent"
    /\ tasks' = [tasks EXCEPT ![c] = catchClause(@, e)]
    /\ UNCHANGED <<options, otherOptions, schema, phase, connectError, members, apollo,
                   counter, uses, invocations, input, output>>

StatusCodes == {JUndefined, Num(0), Num(400), Num(499), Num(500), Num(503)}
TransportErrors == { NetworkError(sc) : sc \in StatusCodes } \cup {GraphQLError}
MemberNames == {"user", "sum", "drop", "node", "post", "publish", "ping", "any"}
LoggerArgs == {NoLogger, CallerLogger}
ProjectionArgs == {JUndefined, Obj(<<>>), Obj(<< <<"name", JTrue>> >>)}

\* one caller: every operation, logger, projection and transport failure
Next ==
    \/ Connect
    \/ \E name \in MemberNames, logger \in LoggerArgs, projections \in ProjectionArgs :
          OperationCall(1, name, logger, projections)
    \/ OperationSend(1)
    \/ OperationReturn(1)
    \/ \E e \in TransportErrors : OperationCatch(1, e)

Spec == Init /\ [][Next]_vars

\* concurrent callers of the one operation of UserSchema, under every option value
InitConcurrent ==
    /\ \E o \in OptionValues : Constructed(o, UserSchema)
    /\ input = NoInput
    /\ output = NoOutput

NextConcurrent ==
    \/ Connect
    \/ \E c \in 1..MaxTasks : OperationCall(c, "user", NoLogger, JUndefined)
    \/ \E c \in 1..MaxTasks : OperationSend(c)
    \/ \E c \in 1..MaxTasks : OperationReturn(c)
    \/ \E c \in 1..MaxTasks : OperationCatch(c, NetworkError(Num(503)))

SpecConcurrent == InitConcurrent /\ [][NextConcurrent]_vars

(***************************************************************************)
(* The renderer harness: the pure builders applied to bounded inputs.      *)
(***************************************************************************)
InitPure ==
    /\ input \in { [fn |-> "makeFieldTypeExpr", arg |-> t] : t \in HarnessTypes }
            \cup { [fn |-> "queryArgDeclare", arg |-> a] : a \in HarnessArgs }
            \cup { [fn |-> "makeReturnExpr", arg |-> p] : p \in HarnessProjections }
    /\ output = NoOutput
    /\ Constructed(JUndefined, UserSchema)

ApplyFieldTypeExpr ==
    /\ input.fn = "makeFieldTypeExpr" /\ output = NoOutput
    /\ output' = makeFieldTypeExpr(input.arg)
    /\ UNCHANGED input
    /\ UNCHANGED clientVars

ApplyArgDeclare ==
    /\ input.fn = "queryArgDeclare" /\ output = NoOutput
    /\ output' = queryArgDeclare(input.arg)
    /\ UNCHANGED input
    /\ UNCHANGED clientVars

ApplyReturnExpr ==
    /\ input.fn = "makeReturnExpr" /\ output = NoOutput
    /\ output' = makeReturnExpr(input.arg)
    /\ UNCHANGED input
    /\ UNCHANGED clientVars

NextPure == ApplyFieldTypeExpr \/ ApplyArgDeclare \/ ApplyReturnExpr

SpecPure == InitPure /\ [][NextPure]_vars

(***************************************************************************)
(* Properties.                                                             *)
(***************************************************************************)
Settled(task) == task.pc \in {"fulfilled", "rejected"}
IsThreshold(v) == v.t = "number"

\* C1: with a positive-integer threshold T, after N calls of _ensureClient (in any
\* interleaving of the callers) exactly ceil(N / T) instances have been constructed:
\* none before the first call, one by the first call, two by T + 1 calls.
C1_CeilInstances ==
    IsThreshold(otherOptions.resetStoreEvery) =>
        LET T == otherOptions.resetStoreEvery.n
            N == invocations
            K == Len(uses)
        IN  /\ N = 0 => K = 0
            /\ N >= 1 => (K - 1) * T < N /\ N <= K * T

\* T = 2, three calls issued while two of them are still suspended: two instances
C1_Witness ==
    /\ otherOptions.resetStoreEvery = Num(2)
    /\ invocations = 3
    /\ Len(uses) = 2
    /\ \E c, d \in 1..MaxTasks : c # d /\ tasks[c].pc = "ensured" /\ tasks[d].pc = "ensured"

\* the failure carries a networkError whose statusCode is missing, 0 or >= 500
ServerSide(e) ==
    /\ e.networkError.t = "object"
    /\ \/ e.networkError.statusCode.t = "undefined"
       \/ /\ e.networkError.statusCode.t = "number"
          /\ (e.networkError.statusCode.n = 0 \/ e.networkError.statusCode.n >= 500)

\* the failure carries a networkError whose statusCode is missing or >= 500
MissingOrAbove500(e) ==
    /\ e.networkError.t = "object"
    /\ \/ e.networkError.statusCode.t = "undefined"
       \/ /\ e.networkError.statusCode.t = "number"
          /\ e.networkError.statusCode.n >= 500

\* how a call that raised task.raised has settled: reported through fail, once, on
\* the effective logger, and settled as fail did; or re-raised unchanged
Classified(task, reported) ==
    LET e == task.raised
        effective == IF task.loggerArg = NoLogger THEN DefaultLogger ELSE task.loggerArg
    IN  IF reported
        THEN /\ task.fails = <<[logger |-> effective, code |-> "_failed_api_server_error",
                                cause |-> e]>>
             /\ IF failThrows(effective)
                THEN task.pc = "rejected" /\ task.error = e
                ELSE task.pc = "fulfilled" /\ task.value = "undefined"
        ELSE /\ task.pc = "rejected"
             /\ task.error = e
             /\ task.fails = <<>>

\* C2 (as amended): a failure raised while an operation runs calls fail once, with
\* '_failed_api_server_error' and the failure, on the effective logger when it carries
\* a networkError whose statusCode is missing, 0 or >= 500, and the operation then
\* settles as fail does (no value if fail returns); every other failure is re-raised
\* unchanged and fail is not called.
C2_FailureClassification ==
    \A c \in 1..MaxTasks :
        (Settled(tasks[c]) /\ tasks[c].raised # NoError) =>
            Classified(tasks[c], ServerSide(tasks[c].raised))

\* a 503 reported to the caller's logger, whose fail returns: the call resolves
C2_Witness ==
    /\ tasks[1].pc = "fulfilled"
    /\ tasks[1].raised = NetworkError(Num(503))
    /\ tasks[1].loggerArg = CallerLogger
    /\ Len(tasks[1].fails) = 1

\* C2 (as stated): fail is called exactly when the networkError's statusCode is
\* missing or >= 500; a networkError with a statusCode < 500 is re-raised.
C2_AsStated ==
    \A c \in 1..MaxTasks :
        (Settled(tasks[c]) /\ tasks[c].raised # NoError) =>
            Classified(tasks[c], MissingOrAbove500(tasks[c].raised))

\* C3: every call hands its document to the instance that was current when that call
\* ran _ensureClient.
C3_SendsOnEnsuredInstance ==
    \A c \in 1..MaxTasks : tasks[c].sentOn # 0 => tasks[c].sentOn = tasks[c].ensuredOn

\* C4: whatever otherOptions create is given (omitted, with a resetStoreEvery, or an
\* object without one), the first call of _ensureClient constructs an instance.
C4_FirstCallConstructs ==
    invocations >= 1 => (Len(uses) >= 1 /\ apollo # 0)

\* a scalar or enum, or one under NonNull
RECURSIVE ClaimedLeaf(_, _)
ClaimedLeaf(types, type) ==
    IF type.kind = "Named" THEN types[type.name].kind \in {"SCALAR", "ENUM"}
    ELSE IF type.kind = "NonNull" THEN ClaimedLeaf(types, type.ofType)
    ELSE FALSE

\* the projection of a named type by the first-leaf policy over ClaimedLeaf
RECURSIVE ClaimedProjection(_, _, _)
ClaimedProjection(types, name, fuel) ==
    IF types[name].kind # "OBJECT" \/ fuel = 0 THEN Obj(<<>>)
    ELSE LET fields == types[name].fields
             leaves == { i \in 1..Len(fields) : ClaimedLeaf(types, fields[i].type) }
         IN  IF leaves # {}
             THEN LET first == CHOOSE i \in leaves : \A j \in leaves : i <= j
                  IN  Obj(<< <<fields[first].name, JTrue>> >>)
             ELSE Obj(<< <<fields[1].name,
                           ClaimedProjection(types, getNamedType(fields[1].type),
                                             fuel - 1)>> >>)

\* C5: the default projection of an operation is empty for a return type that is no
\* object type, {f: true} for the first field whose type is a leaf, a non-null leaf
\* such as ID! included, and else {first: select(type of first)}; user(id: ID!): User
\* with User {id: ID!, name: String} sends query ($id: ID!) { user (id: $id) {id} }.
C5_DefaultProjection ==
    /\ phase = "connected" =>
          \A n \in DOMAIN members :
              members[n].defaultProjections =
                  ClaimedProjection(schema.types, getNamedType(members[n].field.type),
                                    MaxStack)
    /\ \A c \in 1..MaxTasks :
          (/\ schema = UserSchema
           /\ tasks[c].sentOn # 0
           /\ tasks[c].projections = members["user"].defaultProjections)
          => tasks[c].document = "query ($id: ID!) { user (id: $id) {id} }"

\* the selection set with true and nested entries alone
RECURSIVE ClaimedSelection(_)
ClaimedSelection(projection) ==
    LET entries == projection.entries
        NonEmpty(str) == str # ""
        parts == [i \in 1..Len(entries) |->
                    IF entries[i][2] = JTrue THEN entries[i][1]
                    ELSE IF entries[i][2].t = "object"
                    THEN entries[i][1] \o " " \o ClaimedSelection(entries[i][2])
                    ELSE ""]
        included == join(SelectSeq(parts, NonEmpty), ", ")
    IN  IF included = "" THEN "" ELSE "{" \o included \o "}"

\* C6: the selection set holds, in entry order and joined by ', ', the entries whose
\* value is true (bare) or a nested projection (field and its selection set); an
\* entry whose value is false, null, undefined, 0 or '' is omitted; nothing included
\* renders as the empty string.
C6_FalsyOmitted ==
    (input.fn = "makeReturnExpr" /\ output # NoOutput) =>
        output = ClaimedSelection(input.arg)

FieldNames(fields) == { fields[i].name : i \in 1..Len(fields) }
FieldNamed(fields, n) == fields[CHOOSE i \in 1..Len(fields) : fields[i].name = n]

\* C7: after _connect the client has one operation under each field name of the
\* query type and of the mutation type; a name both types define holds the mutation
\* (it is sent with mutate); a schema without a mutation type does not make _connect
\* fail.
C7_FacadeOperations ==
    LET queries == FieldNames(schema.queryFields)
        mutations == IF schema.hasMutation THEN FieldNames(schema.mutationFields) ELSE {}
    IN  /\ phase = "connected" =>
              /\ DOMAIN members = queries \cup mutations
              /\ \A n \in mutations :
                    /\ members[n].kind = "mutation"
                    /\ members[n].field = FieldNamed(schema.mutationFields, n)
              /\ \A n \in queries \ mutations :
                    /\ members[n].kind = "query"
                    /\ members[n].field = FieldNamed(schema.queryFields, n)
        /\ (phase = "failed" /\ ~schema.hasMutation) => connectError = RangeError
        /\ \A c \in 1..MaxTasks :
              tasks[c].sentOn # 0 =>
                  tasks[c].method = (IF tasks[c].name \in mutations THEN "mutate"
                                     ELSE "query")

\* user is a field of both types: the call is sent as a mutation
C7_Witness ==
    /\ schema = CollisionSchema
    /\ phase = "connected"
    /\ tasks[1].name = "user"
    /\ tasks[1].pc = "sent"
    /\ tasks[1].method = "mutate"

\* the wrappers of a type reference, outermost first
RECURSIVE Wrappers(_)
Wrappers(type) ==
    IF type.kind = "Named" THEN <<>> ELSE <<type.kind>> \o Wrappers(type.ofType)

\* opening brackets outermost first, the name, closing marks innermost first
ExpectedTypeExpr(type) ==
    LET ws == Wrappers(type)
        n == Len(ws)
        opening == [i \in 1..n |-> IF ws[i] = "List" THEN "[" ELSE ""]
        closing == [i \in 1..n |-> IF ws[n + 1 - i] = "List" THEN "]" ELSE "!"]
    IN  join(opening, "") \o getNamedType(type) \o join(closing, "")

\* C8: a type reference renders as its name, with '!' appended for each NonNull and
\* '[' ']' put around for each List, innermost wrapper first; NonNull(List(NonNull(Int)))
\* is "[Int!]!"; the declarations are '$name: type' per argument, in declared order.
C8_TypeExprRendering ==
    /\ (input.fn = "makeFieldTypeExpr" /\ output # NoOutput) =>
          output = ExpectedTypeExpr(input.arg)
    /\ (/\ input = [fn |-> "makeFieldTypeExpr",
                    arg |-> NonNull(List(NonNull(Named("Int"))))]
        /\ output # NoOutput) => output = "[Int!]!"
    /\ (input.fn = "queryArgDeclare" /\ output # NoOutput) =>
          output = join([i \in 1..Len(input.arg) |->
                           "$" \o input.arg[i].name \o ": "
                               \o ExpectedTypeExpr(input.arg[i].type)], ", ")

C8_Witness ==
    /\ input = [fn |-> "queryArgDeclare",
                arg |-> <<Arg("xs", NonNull(List(NonNull(Named("Int"))))),
                          Arg("id", NonNull(Named("ID")))>>]
    /\ output = "$xs: [Int!]!, $id: ID!"

\* C9: with a positive-integer threshold T no instance is handed more than T
\* documents, in any interleaving of the callers.
C9_UsesBounded ==
    IsThreshold(otherOptions.resetStoreEvery) =>
        \A i \in 1..Len(uses) : uses[i] <= otherOptions.resetStoreEvery.n

\* C10: for every schema the default-projection selection of _connect ends with a
\* projection, so _connect completes.
C10_ConnectCompletes == phase # "failed"
====
